---- MODULE Spec2Model ----
(***************************************************************************)
(* Selection / carousel / responsive-mode engine of src/script.js (the    *)
(* module at lines 527-1120).                                              *)
(*                                                                         *)
(* The document is the environment: numEntries selectable entries, entry  *)
(* e carrying data-image = DataImage(e); at most one entry marked         *)
(* 'selected' in the markup; the desktop showcase may be absent           *)
(* (hasShowcase).  The modal, the mobile showcase, the showcase image      *)
(* wrapper and the progress bar are present.  The script is taken to run  *)
(* its set-up (setupEntrySelection, initResizeTracking) in one step, at   *)
(* one viewport width.                                                    *)
(*                                                                         *)
(* Time is abstracted to the order of callbacks: the 250 ms fade timeouts *)
(* fire in the order they were scheduled (fadeQueue), each live interval  *)
(* timer may tick at any moment, animation-frame callbacks are counted.   *)
(*                                                                         *)
(* The theme controller (lines 543-690) shares no state with the engine:  *)
(* it is explored by its own specification, ThemeSpec, in which the       *)
(* engine rests; in Spec the theme controller rests.                      *)
(***************************************************************************)
EXTENDS Integers, Sequences, FiniteSets, TLC

\* ---- bounds of the model ----
MaxEntries == 3
MaxFades == 2
MaxRaf == 1
MaxTimers == 3
MaxClears == 2

\* ---- program constants ----
Breakpoint == 768

\* viewport widths: the two sides of the breakpoint
Widths == {Breakpoint, Breakpoint + 1}
TimerIds == 1..MaxTimers
NoImage == 0
NoTimer == 0

VARIABLES
  pc,                 \* "start" before the script ran, "ready" after
  numEntries,         \* document: number of .entry.selectable elements
  hasShowcase,        \* document: .showcase element present
  innerWidth,         \* window.innerWidth
  wasMobile,          \* let wasMobile
  selected,           \* entries carrying class 'selected'
  showcaseSel,        \* .showcase[data-selected]
  mobileSel,          \* .mobile-showcase[data-selected]
  fading,             \* .showcase-image-wrapper has class 'fading'
  fadeQueue,          \* pending 250 ms timeouts of updateImageVisibility
  modalActive,        \* #mobileModal has class 'active'
  bodyLocked,         \* document.body.style.overflow = 'hidden'
  carouselIntervalId, \* let carouselIntervalId (NoTimer = null)
  liveTimers,         \* interval timers created and not yet cleared
  carouselPaused,     \* let carouselPaused
  progRunning,        \* #carouselProgress has class 'running'
  progPaused,         \* #carouselProgress has class 'paused'
  barWidth,           \* .carousel-progress-bar width in percent
  rafPending,         \* animation-frame callbacks of startProgressBar pending
  lastOp              \* the event handler or interval callback that ran last

VARIABLES
  oddEntry,           \* document: the entry (0 = none) whose data-image holds
                      \* a backslash, so that the attribute selector built
                      \* from it matches no element
  tpc,                \* theme: "start" before init(), "ready" after
  storeReadable,      \* localStorage.getItem does not throw
  storeWritable,      \* localStorage.setItem does not throw
  hasMatchMedia,      \* window.matchMedia exists
  stored,             \* localStorage['theme-preference'] ("none" = null)
  systemDark,         \* (prefers-color-scheme: dark) matches
  dataTheme,          \* html[data-theme] ("none" = attribute absent)
  transitioning,      \* html has attribute data-theme-transitioning
  pendingClears,      \* pending 300 ms timeouts of toggleTheme
  ariaLabel,          \* aria-label of #themeToggle
  returned,           \* value returned by the last toggleTheme / getCurrentTheme
  uncaught,           \* an exception escaped a handler
  appliedArgs,        \* arguments of the last two applyTheme calls
  beforeToggle,       \* html[data-theme] before the last toggleTheme
  chosen,             \* toggleTheme has run since the store was last cleared
  lastThemeOp         \* the theme handler that ran last

themeVars == <<tpc, storeReadable, storeWritable, hasMatchMedia, stored,
               systemDark, dataTheme, transitioning, pendingClears, ariaLabel,
               returned, uncaught, appliedArgs, beforeToggle, chosen,
               lastThemeOp>>

vars == <<pc, numEntries, hasShowcase, innerWidth, wasMobile, selected,
          showcaseSel, mobileSel, fading, fadeQueue, modalActive, bodyLocked,
          carouselIntervalId, liveTimers, carouselPaused, progRunning,
          progPaused, barWidth, rafPending, lastOp>>

allVars == <<vars, oddEntry, themeVars>>

Entries == 1..numEntries

\* data-image of entry e: every entry carries its own image identifier
DataImage(e) == e

\* the engine state as one record, so that the handlers compose
Cur ==
  [innerWidth |-> innerWidth, wasMobile |-> wasMobile, selected |-> selected,
   showcaseSel |-> showcaseSel, mobileSel |-> mobileSel, fading |-> fading,
   fadeQueue |-> fadeQueue, modalActive |-> modalActive,
   bodyLocked |-> bodyLocked, carouselIntervalId |-> carouselIntervalId,
   liveTimers |-> liveTimers, carouselPaused |-> carouselPaused,
   progRunning |-> progRunning, progPaused |-> progPaused,
   barWidth |-> barWidth, rafPending |-> rafPending]

Commit(s) ==
  /\ innerWidth' = s.innerWidth
  /\ wasMobile' = s.wasMobile
  /\ selected' = s.selected
  /\ showcaseSel' = s.showcaseSel
  /\ mobileSel' = s.mobileSel
  /\ fading' = s.fading
  /\ fadeQueue' = s.fadeQueue
  /\ modalActive' = s.modalActive
  /\ bodyLocked' = s.bodyLocked
  /\ carouselIntervalId' = s.carouselIntervalId
  /\ liveTimers' = s.liveTimers
  /\ carouselPaused' = s.carouselPaused
  /\ progRunning' = s.progRunning
  /\ progPaused' = s.progPaused
  /\ barWidth' = s.barWidth
  /\ rafPending' = s.rafPending

\* ---- helpers of the script ----

\* variant: the breakpoint itself counts as desktop
IsMobileAt_strict(w) == w < Breakpoint

IsMobileAt(w) == w <= Breakpoint

isMobile(s) == IsMobileAt(s.innerWidth)

openMobileModal(s, imageId) ==
  [s EXCEPT !.mobileSel = IF imageId # NoImage THEN imageId ELSE @,
            !.modalActive = TRUE,
            !.bodyLocked = TRUE]

\* variant: the overlay is hidden but body scroll is not restored
closeMobileModal_keepsLock(s) == [s EXCEPT !.modalActive = FALSE]

closeMobileModal(s) ==
  [s EXCEPT !.modalActive = FALSE, !.bodyLocked = FALSE]

\* variant: skipTransition is ignored, every update fades
updateImageVisibility_alwaysFades(s, imageId, skipTransition) ==
  IF ~hasShowcase \/ imageId = NoImage THEN s
  ELSE [s EXCEPT !.fading = TRUE, !.fadeQueue = Append(@, imageId)]

updateImageVisibility(s, imageId, skipTransition) ==
  IF ~hasShowcase \/ imageId = NoImage THEN s
  ELSE IF skipTransition THEN [s EXCEPT !.showcaseSel = imageId]
  ELSE [s EXCEPT !.fading = TRUE, !.fadeQueue = Append(@, imageId)]

startProgressBar(s) ==
  [s EXCEPT !.progRunning = FALSE, !.progPaused = FALSE, !.barWidth = 0,
            !.rafPending = @ + 1]

pauseProgressBar(s) ==
  [s EXCEPT !.progRunning = FALSE, !.progPaused = TRUE]

\* variant: the handle is forgotten but clearInterval is not called
stopCarousel_forgetsClear(s) ==
  [s EXCEPT !.carouselIntervalId = NoTimer]

stopCarousel(s) ==
  IF s.carouselIntervalId # NoTimer
  THEN [s EXCEPT !.liveTimers = @ \ {s.carouselIntervalId},
                 !.carouselIntervalId = NoTimer]
  ELSE s

\* the handle setInterval returns: different from every live timer and from
\* the handle stored until now
FreshTimerExists(s) ==
  \E i \in TimerIds : i \notin s.liveTimers /\ i # s.carouselIntervalId

FreshTimer(s) ==
  CHOOSE i \in TimerIds : i \notin s.liveTimers /\ i # s.carouselIntervalId

setInterval(s, id) ==
  [s EXCEPT !.liveTimers = @ \cup {id}, !.carouselIntervalId = id]

\* variant: the guard does not test the showcase
StartCarouselRuns_ignoresShowcase(s, showcasePresent) ==
  ~(isMobile(s) \/ numEntries = 0 \/ s.carouselPaused)

StartCarouselRuns(s, showcasePresent) ==
  ~(isMobile(s) \/ numEntries = 0 \/ ~showcasePresent \/ s.carouselPaused)

startCarousel(s, showcasePresent) ==
  IF ~StartCarouselRuns(s, showcasePresent) THEN s
  ELSE LET id == FreshTimer(s)
       IN setInterval(startProgressBar(stopCarousel(s)), id)

\* variant: the flag is set but the interval keeps running
pauseCarousel_noStop(s) ==
  pauseProgressBar([s EXCEPT !.carouselPaused = TRUE])

pauseCarousel(s) ==
  pauseProgressBar(stopCarousel([s EXCEPT !.carouselPaused = TRUE]))

\* variant: the other entries keep their mark
removeSelectedAll_keeps(s) == s

\* entries.forEach(e => e.classList.remove('selected'))
removeSelectedAll(s) == [s EXCEPT !.selected = @ \ Entries]

\* entry.classList.add('selected')
addSelected(s, entry) == [s EXCEPT !.selected = @ \cup {entry}]

\* ---- set-up (runs once) ----

\* document.querySelector('.entry.selectable.selected'): first match or none
SelectedEntry(s) ==
  IF s.selected = {} THEN 0
  ELSE CHOOSE e \in s.selected : \A f \in s.selected : e <= f

\* document.querySelector('.entry.selectable[data-image="id"]')
SelectorMatches(e, imageId) == DataImage(e) = imageId /\ e # oddEntry

EntryOfImage(imageId) ==
  IF \E e \in Entries : SelectorMatches(e, imageId)
  THEN CHOOSE e \in Entries :
         /\ SelectorMatches(e, imageId)
         /\ \A f \in Entries : SelectorMatches(f, imageId) => e <= f
  ELSE 0

\* variant: the default image is shown through the fade switch
setupEntrySelection_fades(s) ==
  IF ~hasShowcase THEN s
  ELSE LET defaultEntry == SelectedEntry(s)
           s1 == IF defaultEntry # 0 /\ ~isMobile(s)
                 THEN updateImageVisibility(s, DataImage(defaultEntry), FALSE)
                 ELSE s
       IN IF ~isMobile(s1) THEN startCarousel(s1, TRUE) ELSE s1

setupEntrySelection(s) ==
  IF ~hasShowcase THEN s
  ELSE LET defaultEntry == SelectedEntry(s)
           s1 == IF defaultEntry # 0 /\ ~isMobile(s)
                 THEN updateImageVisibility(s, DataImage(defaultEntry), TRUE)
                 ELSE s
       IN IF ~isMobile(s1) THEN startCarousel(s1, TRUE) ELSE s1

initResizeTracking(s) == [s EXCEPT !.wasMobile = isMobile(s)]

\* ---- handlers ----

\* variant: on mobile the entry is highlighted as well
selectEntry_alsoHighlights(s, entry) ==
  LET imageId == DataImage(entry)
      d == pauseCarousel(
             updateImageVisibility(addSelected(removeSelectedAll(s), entry),
                                   imageId, FALSE))
  IN IF isMobile(s) THEN openMobileModal(d, imageId) ELSE d

selectEntry(s, entry) ==
  LET imageId == DataImage(entry)
  IN IF isMobile(s)
     THEN IF imageId # NoImage THEN openMobileModal(s, imageId) ELSE s
     ELSE pauseCarousel(
            updateImageVisibility(addSelected(removeSelectedAll(s), entry),
                                  imageId, FALSE))

\* index (from 0) of the last entry carrying 'selected', -1 if none
CurrentIndex(s) ==
  IF s.selected = {} THEN -1
  ELSE (CHOOSE e \in s.selected : \A f \in s.selected : f <= e) - 1

\* variant: no wrap-around, the last entry stays active
NextIndex_noWrap(currentIndex, n) ==
  IF currentIndex + 1 < n THEN currentIndex + 1 ELSE currentIndex

NextIndex(currentIndex, n) == (currentIndex + 1) % n

\* variant: the callback does not test the viewport
TickCancels_pausedOnly(s) == s.carouselPaused

TickCancels(s) == isMobile(s) \/ s.carouselPaused

\* variant: the tick marks the next entry without unmarking the others
carouselTick_noRemove(s) ==
  IF TickCancels(s) THEN stopCarousel(s)
  ELSE LET nextEntry == NextIndex(CurrentIndex(s), numEntries) + 1
       IN startProgressBar(
            updateImageVisibility(addSelected(s, nextEntry),
                                  DataImage(nextEntry), FALSE))

\* variant: the tick selects the next entry as a user action would
carouselTick_pauses(s) ==
  IF TickCancels(s) THEN stopCarousel(s)
  ELSE LET nextEntry == NextIndex(CurrentIndex(s), numEntries) + 1
       IN startProgressBar(
            pauseCarousel(
              updateImageVisibility(
                addSelected(removeSelectedAll(s), nextEntry),
                DataImage(nextEntry), FALSE)))

\* variant: the tick marks the entry that is active already
carouselTick_staysPut(s) ==
  IF TickCancels(s) THEN stopCarousel(s)
  ELSE LET nextEntry == IF CurrentIndex(s) = -1 THEN 1
                        ELSE CurrentIndex(s) + 1
       IN startProgressBar(
            updateImageVisibility(
              addSelected(removeSelectedAll(s), nextEntry),
              DataImage(nextEntry), FALSE))

carouselTick(s) ==
  IF TickCancels(s) THEN stopCarousel(s)
  ELSE LET nextEntry == NextIndex(CurrentIndex(s), numEntries) + 1
       IN startProgressBar(
            updateImageVisibility(
              addSelected(removeSelectedAll(s), nextEntry),
              DataImage(nextEntry), FALSE))

\* variant: the carry-over leaves the modal open
resizeToDesktop_keepsModal(s) ==
  LET currentImageId == s.mobileSel
      correspondingEntry == EntryOfImage(currentImageId)
      s1 == IF s.modalActive /\ currentImageId # NoImage
            THEN updateImageVisibility(
                   IF correspondingEntry # 0
                   THEN addSelected(removeSelectedAll(s), correspondingEntry)
                   ELSE removeSelectedAll(s),
                   currentImageId, TRUE)
            ELSE s
  IN startCarousel([s1 EXCEPT !.carouselPaused = FALSE], hasShowcase)

\* the Mobile -> Desktop branch of handleResize
resizeToDesktop(s) ==
  LET currentImageId == s.mobileSel
      correspondingEntry == EntryOfImage(currentImageId)
      s1 == IF s.modalActive
            THEN LET c == closeMobileModal(s)
                 IN IF currentImageId # NoImage
                    THEN updateImageVisibility(
                           IF correspondingEntry # 0
                           THEN addSelected(removeSelectedAll(c),
                                            correspondingEntry)
                           ELSE removeSelectedAll(c),
                           currentImageId, TRUE)
                    ELSE c
            ELSE s
  IN startCarousel([s1 EXCEPT !.carouselPaused = FALSE], hasShowcase)

\* variant: the carousel is stopped but the mobile display is not seeded
resizeToMobile_noSeed(s) == pauseProgressBar(stopCarousel(s))

\* variant: the mobile display is seeded through openMobileModal
resizeToMobile_opensModal(s) ==
  LET s1 == pauseProgressBar(stopCarousel(s))
      selectedEntry == SelectedEntry(s1)
  IN IF selectedEntry # 0 /\ DataImage(selectedEntry) # NoImage
     THEN openMobileModal(s1, DataImage(selectedEntry))
     ELSE s1

\* the Desktop -> Mobile branch of handleResize
resizeToMobile(s) ==
  LET s1 == pauseProgressBar(stopCarousel(s))
      selectedEntry == SelectedEntry(s1)
  IN IF selectedEntry # 0 /\ DataImage(selectedEntry) # NoImage
     THEN [s1 EXCEPT !.mobileSel = DataImage(selectedEntry)]
     ELSE s1

\* variant: every resize event at a desktop width takes the
\* Mobile -> Desktop branch, whatever the tracked mode was
handleResize_anyDesktop(s) ==
  LET nowMobile == isMobile(s)
      s1 == IF ~nowMobile THEN resizeToDesktop(s)
            ELSE IF ~s.wasMobile /\ nowMobile THEN resizeToMobile(s)
            ELSE s
  IN [s1 EXCEPT !.wasMobile = nowMobile]

\* variant: a resize event that stays at a mobile width closes the modal
handleResize_mobileCloses(s) ==
  LET nowMobile == isMobile(s)
      s1 == IF s.wasMobile /\ ~nowMobile THEN resizeToDesktop(s)
            ELSE IF ~s.wasMobile /\ nowMobile THEN resizeToMobile(s)
            ELSE IF nowMobile THEN closeMobileModal(s)
            ELSE s
  IN [s1 EXCEPT !.wasMobile = nowMobile]

handleResize(s) ==
  LET nowMobile == isMobile(s)
      s1 == IF s.wasMobile /\ ~nowMobile THEN resizeToDesktop(s)
            ELSE IF ~s.wasMobile /\ nowMobile THEN resizeToMobile(s)
            ELSE s
  IN [s1 EXCEPT !.wasMobile = nowMobile]

fadeTimeout(s) ==
  [s EXCEPT !.showcaseSel = Head(s.fadeQueue), !.fading = FALSE,
            !.fadeQueue = Tail(@)]

animationFrame(s) ==
  [s EXCEPT !.barWidth = 100, !.progRunning = TRUE, !.rafPending = @ - 1]

\* a handler may run only if the timers and callbacks it creates fit the bounds
Fits(s) ==
  /\ Len(s.fadeQueue) <= MaxFades
  /\ s.rafPending <= MaxRaf

\* ---- the state machine ----

EngineInit ==
  /\ pc = "start"
  /\ numEntries \in 0..MaxEntries
  /\ hasShowcase \in BOOLEAN
  /\ innerWidth \in Widths
  /\ wasMobile = FALSE
  /\ selected \in {{}} \cup {{e} : e \in 1..numEntries}
  /\ showcaseSel \in {NoImage} \cup
       (IF hasShowcase THEN {DataImage(e) : e \in selected} ELSE {})
  /\ mobileSel = NoImage
  /\ fading = FALSE
  /\ fadeQueue = <<>>
  /\ modalActive = FALSE
  /\ bodyLocked = FALSE
  /\ carouselIntervalId = NoTimer
  /\ liveTimers = {}
  /\ carouselPaused = FALSE
  /\ progRunning = FALSE
  /\ progPaused = FALSE
  /\ barWidth = 0
  /\ rafPending = 0
  /\ lastOp = "none"

\* the theme controller at rest
ThemeIdle ==
  /\ tpc = "start"
  /\ storeReadable = TRUE
  /\ storeWritable = TRUE
  /\ hasMatchMedia = TRUE
  /\ stored = "none"
  /\ systemDark = FALSE
  /\ dataTheme = "none"
  /\ transitioning = FALSE
  /\ pendingClears = 0
  /\ ariaLabel = "none"
  /\ returned = "none"
  /\ uncaught = FALSE
  /\ appliedArgs = <<>>
  /\ beforeToggle = "none"
  /\ chosen = FALSE
  /\ lastThemeOp = "none"

\* every data-image is a plain token
Init == EngineInit /\ oddEntry = 0 /\ ThemeIdle

\* the script runs: initEntrySelection(), then initResizeTracking()
ScriptInit ==
  /\ pc = "start"
  /\ StartCarouselRuns(Cur, hasShowcase) => FreshTimerExists(Cur)
  /\ LET s == initResizeTracking(setupEntrySelection(Cur))
     IN Fits(s) /\ Commit(s)
  /\ pc' = "ready"
  /\ lastOp' = "init"
  /\ UNCHANGED <<numEntries, hasShowcase, oddEntry, themeVars>>

\* click, Enter or Space on an entry
\* (without a showcase setupEntrySelection registered no listener)
SelectEntry(e) ==
  /\ pc = "ready"
  /\ IF hasShowcase
     THEN /\ LET s == selectEntry(Cur, e)
             IN Fits(s) /\ Commit(s)
          /\ lastOp' = "select"
          /\ UNCHANGED <<pc, numEntries, hasShowcase, oddEntry, themeVars>>
     ELSE UNCHANGED allVars

\* the callback of interval timer t runs
CarouselTick(t) ==
  /\ pc = "ready"
  /\ t \in liveTimers
  /\ LET s == carouselTick(Cur)
     IN Fits(s) /\ Commit(s)
  /\ lastOp' = IF TickCancels(Cur) THEN "tickCancel" ELSE "tickAdvance"
  /\ UNCHANGED <<pc, numEntries, hasShowcase, oddEntry, themeVars>>

\* the window is resized to width w; its resize event is HandleResize
ViewportChange(w) ==
  /\ pc = "ready"
  /\ w # innerWidth
  /\ innerWidth' = w
  /\ UNCHANGED <<pc, numEntries, hasShowcase, wasMobile, selected,
                 showcaseSel, mobileSel, fading, fadeQueue, modalActive,
                 bodyLocked, carouselIntervalId, liveTimers, carouselPaused,
                 progRunning, progPaused, barWidth, rafPending, lastOp,
                 oddEntry, themeVars>>

HandleResize ==
  /\ pc = "ready"
  /\ (wasMobile /\ ~isMobile(Cur) /\ StartCarouselRuns(
        [Cur EXCEPT !.carouselPaused = FALSE], hasShowcase))
       => FreshTimerExists(Cur)
  /\ LET s == handleResize(Cur)
     IN Fits(s) /\ Commit(s)
  /\ lastOp' = IF wasMobile /\ ~isMobile(Cur)
               THEN (IF modalActive THEN "resizeM2DModal" ELSE "resizeM2D")
               ELSE IF ~wasMobile /\ isMobile(Cur) THEN "resizeD2M"
               ELSE "resizeSame"
  /\ UNCHANGED <<pc, numEntries, hasShowcase, oddEntry, themeVars>>

\* the oldest pending 250 ms timeout of updateImageVisibility fires
FadeTimeout ==
  /\ pc = "ready"
  /\ fadeQueue # <<>>
  /\ Commit(fadeTimeout(Cur))
  /\ UNCHANGED <<pc, numEntries, hasShowcase, lastOp, oddEntry, themeVars>>

\* an animation-frame callback of startProgressBar runs
AnimationFrame ==
  /\ pc = "ready"
  /\ rafPending > 0
  /\ Commit(animationFrame(Cur))
  /\ UNCHANGED <<pc, numEntries, hasShowcase, lastOp, oddEntry, themeVars>>

\* click on the underlay of the open modal
CloseModalClick ==
  /\ pc = "ready"
  /\ hasShowcase
  /\ modalActive
  /\ Commit(closeMobileModal(Cur))
  /\ lastOp' = "close"
  /\ UNCHANGED <<pc, numEntries, hasShowcase, oddEntry, themeVars>>

\* elements of the modal a click can land on: the content box, an element
\* of the content box outside the image wrapper, the image wrapper, and an
\* image inside the wrapper
ContentTargets == {"content", "caption", "wrapper", "image"}

\* the element and its ancestors, the path a click event bubbles along
PathOf(target) ==
  CASE target = "image" -> <<"image", "wrapper", "content", "modal">>
    [] target = "wrapper" -> <<"wrapper", "content", "modal">>
    [] target = "caption" -> <<"caption", "content", "modal">>
    [] target = "content" -> <<"content", "modal">>
    [] target = "underlay" -> <<"underlay", "modal">>

OnPath(node, target) ==
  \E i \in 1..Len(PathOf(target)) : PathOf(target)[i] = node

\* imageWrapper.contains(e.target)
WrapperContains(target) == OnPath("wrapper", target)

\* the click listener of the wrapper calls e.stopPropagation()
ReachesContentListener(target) ==
  OnPath("content", target) /\ ~OnPath("wrapper", target)

\* variant: no listener on the wrapper, and the content listener compares
\* the click target with the wrapper itself
modalClick_targetEquality(s, target) ==
  IF OnPath("underlay", target)
       \/ (OnPath("content", target) /\ target # "wrapper")
  THEN closeMobileModal(s)
  ELSE s

\* the click listeners of the underlay, the content box and the wrapper
modalClick(s, target) ==
  IF OnPath("underlay", target)
       \/ (ReachesContentListener(target) /\ ~WrapperContains(target))
  THEN closeMobileModal(s)
  ELSE s

\* the name under which a click on the target is recorded
ClickOp(target) ==
  CASE target = "image" -> "clickImage"
    [] target = "wrapper" -> "clickWrapper"
    [] target = "caption" -> "clickCaption"
    [] target = "content" -> "clickContent"

\* click inside the content box of the open modal
ModalClick(target) ==
  /\ pc = "ready"
  /\ hasShowcase
  /\ modalActive
  /\ LET s == modalClick(Cur, target)
     IN /\ Commit(s)
        /\ lastOp' = ClickOp(target)
  /\ UNCHANGED <<pc, numEntries, hasShowcase, oddEntry, themeVars>>

Next ==
  \/ ScriptInit
  \/ \E e \in Entries : SelectEntry(e)
  \/ \E t \in liveTimers : CarouselTick(t)
  \/ \E w \in Widths : ViewportChange(w)
  \/ HandleResize
  \/ FadeTimeout
  \/ AnimationFrame
  \/ CloseModalClick

Spec == Init /\ [][Next]_allVars

\* the same machine with the clicks inside the content box of the modal
\* told apart by their target
ModalNext ==
  \/ Next
  \/ \E target \in ContentTargets : ModalClick(target)

ModalSpec == Init /\ [][ModalNext]_allVars

\* the same machine over a document whose last entry has a data-image that
\* its own attribute selector does not match
OddIdInit ==
  EngineInit /\ numEntries >= 1 /\ oddEntry = numEntries /\ ThemeIdle

OddIdSpec == OddIdInit /\ [][Next]_allVars

\* ---- theme controller ----

THEME_DARK == "dark"
THEME_LIGHT == "light"

\* the theme state as one record
TCur ==
  [stored |-> stored, dataTheme |-> dataTheme, transitioning |-> transitioning,
   pendingClears |-> pendingClears, ariaLabel |-> ariaLabel,
   returned |-> returned, uncaught |-> uncaught, appliedArgs |-> appliedArgs]

TCommit(s) ==
  /\ stored' = s.stored
  /\ dataTheme' = s.dataTheme
  /\ transitioning' = s.transitioning
  /\ pendingClears' = s.pendingClears
  /\ ariaLabel' = s.ariaLabel
  /\ returned' = s.returned
  /\ uncaught' = s.uncaught
  /\ appliedArgs' = s.appliedArgs

getSystemThemePreference ==
  IF hasMatchMedia /\ systemDark THEN THEME_DARK ELSE THEME_LIGHT

\* the value read, "none" for null; threw: the exception left the function
getStoredThemePreference(s) ==
  IF storeReadable THEN [val |-> s.stored, threw |-> FALSE]
  ELSE [val |-> "none", threw |-> FALSE]

\* variant: no try/catch around localStorage.setItem
setStoredThemePreference_throws(s, theme) ==
  IF storeWritable THEN [s EXCEPT !.stored = theme]
  ELSE [s EXCEPT !.uncaught = TRUE]

setStoredThemePreference(s, theme) ==
  IF storeWritable THEN [s EXCEPT !.stored = theme] ELSE s

\* variant: the system preference wins over the stored one
getCurrentTheme_systemFirst(s) ==
  LET r == getStoredThemePreference(s)
  IN [val |-> IF hasMatchMedia /\ systemDark THEN THEME_DARK
              ELSE IF r.val # "none" THEN r.val ELSE THEME_LIGHT,
      threw |-> r.threw]

getCurrentTheme(s) ==
  LET r == getStoredThemePreference(s)
  IN [val |-> IF r.val # "none" THEN r.val ELSE getSystemThemePreference,
      threw |-> r.threw]

\* the arguments of the last two calls, newest last
LogApplied(log, theme) ==
  IF Len(log) < 2 THEN Append(log, theme) ELSE <<log[2], theme>>

\* variant: the attribute is flipped instead of set
applyTheme_flips(s, theme) ==
  [s EXCEPT !.dataTheme = IF theme = THEME_DARK /\ @ # THEME_DARK
                          THEN THEME_DARK ELSE "none",
            !.appliedArgs = LogApplied(@, theme)]

applyTheme(s, theme) ==
  [s EXCEPT !.dataTheme = IF theme = THEME_DARK THEN THEME_DARK ELSE "none",
            !.appliedArgs = LogApplied(@, theme)]

updateButtonLabel(s) ==
  [s EXCEPT !.ariaLabel = IF s.dataTheme = THEME_DARK
                          THEN "Switch to light mode"
                          ELSE "Switch to dark mode"]

\* variant: the new theme does not depend on the current one
NewTheme_alwaysDark(s) == THEME_DARK

NewTheme(s) == IF s.dataTheme = THEME_DARK THEN THEME_LIGHT ELSE THEME_DARK

toggleTheme(s) ==
  LET newTheme == NewTheme(s)
      s1 == applyTheme([s EXCEPT !.transitioning = TRUE], newTheme)
      s2 == setStoredThemePreference(s1, newTheme)
  IN IF s2.uncaught THEN s2
     ELSE [s2 EXCEPT !.pendingClears = @ + 1, !.returned = newTheme]

\* init() followed by setupToggleButton()
themeInit(s) ==
  LET initialTheme == getCurrentTheme(s)
  IN IF initialTheme.threw THEN [s EXCEPT !.uncaught = TRUE]
     ELSE updateButtonLabel(
            applyTheme([s EXCEPT !.returned = initialTheme.val],
                       initialTheme.val))

\* the click / keydown listener of #themeToggle
toggleClick(s) ==
  LET s1 == toggleTheme(s)
  IN IF s1.uncaught THEN s1 ELSE updateButtonLabel(s1)

\* variant: the listener applies the system theme whatever is stored
systemChange_always(s, matches) ==
  updateButtonLabel(applyTheme(s, IF matches THEN THEME_DARK ELSE THEME_LIGHT))

\* the 'change' listener of the (prefers-color-scheme: dark) query
systemChange(s, matches) ==
  LET r == getStoredThemePreference(s)
  IN IF r.threw THEN [s EXCEPT !.uncaught = TRUE]
     ELSE IF r.val = "none"
     THEN updateButtonLabel(
            applyTheme(s, IF matches THEN THEME_DARK ELSE THEME_LIGHT))
     ELSE s

\* variant: the marker is removed only by the last pending timeout
clearMarker_lastOnly(s) ==
  [s EXCEPT !.transitioning = IF s.pendingClears > 1 THEN @ ELSE FALSE,
            !.pendingClears = @ - 1]

\* the 300 ms timeout of toggleTheme
clearMarker(s) ==
  [s EXCEPT !.transitioning = FALSE, !.pendingClears = @ - 1]

\* the engine at rest
EngineIdle ==
  /\ pc = "start"
  /\ numEntries = 0
  /\ hasShowcase = FALSE
  /\ innerWidth = Breakpoint
  /\ wasMobile = FALSE
  /\ selected = {}
  /\ showcaseSel = NoImage
  /\ mobileSel = NoImage
  /\ fading = FALSE
  /\ fadeQueue = <<>>
  /\ modalActive = FALSE
  /\ bodyLocked = FALSE
  /\ carouselIntervalId = NoTimer
  /\ liveTimers = {}
  /\ carouselPaused = FALSE
  /\ progRunning = FALSE
  /\ progPaused = FALSE
  /\ barWidth = 0
  /\ rafPending = 0
  /\ lastOp = "none"
  /\ oddEntry = 0

ThemeStartState ==
  /\ tpc = "start"
  /\ storeReadable \in BOOLEAN
  /\ storeWritable \in (IF storeReadable THEN BOOLEAN ELSE {FALSE})
  /\ hasMatchMedia \in BOOLEAN
  /\ stored \in {"none", THEME_DARK, THEME_LIGHT}
  /\ systemDark \in BOOLEAN
  /\ dataTheme \in {"none", THEME_DARK, THEME_LIGHT}
  /\ transitioning = FALSE
  /\ pendingClears = 0
  /\ ariaLabel = "none"
  /\ returned = "none"
  /\ uncaught = FALSE
  /\ appliedArgs = <<>>
  /\ beforeToggle = "none"
  /\ chosen = FALSE
  /\ lastThemeOp = "none"

ThemeInit == ThemeStartState /\ EngineIdle

configVars == <<storeReadable, storeWritable, hasMatchMedia>>

\* the script runs init()
ThemeScriptInit ==
  /\ tpc = "start"
  /\ TCommit(themeInit(TCur))
  /\ tpc' = "ready"
  /\ lastThemeOp' = "init"
  /\ UNCHANGED <<configVars, systemDark, beforeToggle, chosen, vars, oddEntry>>

\* click, Enter or Space on #themeToggle
ToggleClick ==
  /\ tpc = "ready"
  /\ ~uncaught
  /\ pendingClears < MaxClears
  /\ TCommit(toggleClick(TCur))
  /\ beforeToggle' = dataTheme
  /\ chosen' = TRUE
  /\ lastThemeOp' = "toggle"
  /\ UNCHANGED <<tpc, configVars, systemDark, vars, oddEntry>>

\* the system preference changes and the 'change' listener runs
SystemPreferenceChange ==
  /\ tpc = "ready"
  /\ ~uncaught
  /\ systemDark' = ~systemDark
  /\ IF hasMatchMedia
     THEN TCommit(systemChange(TCur, ~systemDark))
     ELSE TCommit(TCur)
  /\ lastThemeOp' = "system"
  /\ UNCHANGED <<tpc, configVars, beforeToggle, chosen, vars, oddEntry>>

\* a pending 300 ms timeout of toggleTheme fires
ClearMarkerTimeout ==
  /\ tpc = "ready"
  /\ pendingClears > 0
  /\ TCommit(clearMarker(TCur))
  /\ lastThemeOp' = "clear"
  /\ UNCHANGED <<tpc, configVars, systemDark, beforeToggle, chosen, vars,
                 oddEntry>>

\* the user clears the site data
ClearStorage ==
  /\ tpc = "ready"
  /\ stored # "none"
  /\ stored' = "none"
  /\ chosen' = FALSE
  /\ lastThemeOp' = "cleared"
  /\ UNCHANGED <<tpc, configVars, systemDark, dataTheme, transitioning,
                 pendingClears, ariaLabel, returned, uncaught, appliedArgs,
                 beforeToggle, vars, oddEntry>>

ThemeNext ==
  \/ ThemeScriptInit
  \/ ToggleClick
  \/ SystemPreferenceChange
  \/ ClearMarkerTimeout
  \/ ClearStorage

ThemeSpec == ThemeInit /\ [][ThemeNext]_allVars

\* ---- steps the properties speak about ----

DesktopSelectStep(e) == ~IsMobileAt(innerWidth) /\ SelectEntry(e)

TickAdvanceStep == ~TickCancels(Cur) /\ (\E t \in liveTimers : CarouselTick(t))

ResizeToDesktopStep == wasMobile /\ ~IsMobileAt(innerWidth) /\ HandleResize

ResizeToMobileStep == ~wasMobile /\ IsMobileAt(innerWidth) /\ HandleResize

MobileSelectStep(e) == hasShowcase /\ IsMobileAt(innerWidth) /\ SelectEntry(e)

\* ---- properties ----

\* C1: in every reachable state at most one carousel interval timer is live,
\* and a live timer is the one whose handle carouselIntervalId stores, so
\* that the next stopCarousel cancels it.
C1_AtMostOneLiveTimer ==
  /\ Cardinality(liveTimers) <= 1
  /\ liveTimers \subseteq {carouselIntervalId}

\* C1 witness: the carousel has been started again by a Mobile -> Desktop
\* transition after an earlier desktop phase (a fade of that phase is still
\* pending), and exactly one timer is live.
C1_Witness ==
  /\ lastOp \in {"resizeM2D", "resizeM2DModal"}
  /\ fadeQueue # <<>>
  /\ Cardinality(liveTimers) = 1

C3_NoTimerUnlessSeveralEntries ==
  numEntries <= 1 => liveTimers = {}

DesktopShown ==
  IF fadeQueue # <<>> THEN fadeQueue[Len(fadeQueue)] ELSE showcaseSel

\* C5 (as claimed): every mode transition of the resize handler, with the
\* modal open or closed, leaves the destination surface's selected image
\* equal to the image the source surface showed (when it showed one).
C5_ImageSurvivesTransition ==
  [][/\ (ResizeToDesktopStep /\ hasShowcase /\ mobileSel # NoImage)
          => showcaseSel' = mobileSel
     /\ (ResizeToMobileStep /\ hasShowcase /\ DesktopShown # NoImage)
          => mobileSel' = DesktopShown]_vars

\* C5 (amended): a Mobile -> Desktop transition with the modal open makes the
\* modal's image the desktop showcase's selected image (with the modal
\* closed nothing is carried over: the showcase keeps its image); a
\* Desktop -> Mobile transition with an active entry makes that entry's image
\* the mobile display's selected image and leaves the desktop showcase as it
\* is (the two agree unless the showcase was never set or a fade swap is
\* pending).
C5_ImageCarriedOver ==
  [][/\ (ResizeToDesktopStep /\ modalActive)
          => (showcaseSel' = mobileSel /\ mobileSel' = mobileSel)
     /\ (ResizeToDesktopStep /\ ~modalActive)
          => (showcaseSel' = showcaseSel /\ selected' = selected)
     /\ (ResizeToMobileStep /\ selected # {})
          => (/\ mobileSel' = DataImage(SelectedEntry(Cur))
              /\ showcaseSel' = showcaseSel)]_vars

\* C5 witness: after a Desktop -> Mobile transition the mobile display holds
\* the image of the active desktop entry, which the user had selected and
\* whose fade swap has completed (showcase and mobile display agree).
C5_Witness ==
  /\ lastOp = "resizeD2M"
  /\ selected = {2}
  /\ mobileSel = 2
  /\ showcaseSel = 2
  /\ carouselPaused

\* C6: a user selectEntry in Desktop mode makes the requested entry the
\* active one, sets carouselPaused and leaves no timer live; and while
\* carouselPaused is set, every step other than a Mobile -> Desktop
\* transition keeps it set and starts no timer, so no tick can advance the
\* active entry (a tick needs a live timer).
C6_UserSelectionPausesUntilDesktopReentry ==
  /\ [][\A e \in Entries : DesktopSelectStep(e) =>
          (selected' = {e} /\ carouselPaused' /\ liveTimers' = {})]_vars
  /\ [](carouselPaused => liveTimers = {})
  /\ [][(carouselPaused /\ ~ResizeToDesktopStep)
          => (carouselPaused' /\ liveTimers' = {})]_vars
  /\ [][(carouselPaused /\ ResizeToDesktopStep) => ~carouselPaused']_vars

\* C6 witness: the carousel is still paused, with the selected entry active
\* and no timer, after a resize event that stayed in Desktop mode.
C6_Witness ==
  /\ lastOp = "resizeSame"
  /\ ~wasMobile
  /\ ~IsMobileAt(innerWidth)
  /\ carouselPaused
  /\ liveTimers = {}
  /\ selected = {3}

RECURSIVE Advance(_, _, _)
\* the index reached from index i by k advancing ticks over n entries
Advance(i, n, k) == IF k = 0 THEN i ELSE Advance(NextIndex(i, n), n, k - 1)

\* C7: with N > 1 entries an advancing tick moves the mark from the entry at
\* index i to the entry at index i+1, and from the last entry to the first;
\* N advancing ticks lead from every index back to it.
C7_TickAdvancesCyclically ==
  /\ [][(TickAdvanceStep /\ numEntries > 1) =>
          \A e \in Entries :
            selected = {e} =>
              selected' = {IF e = numEntries THEN 1 ELSE e + 1}]_vars
  /\ [](numEntries > 1 =>
          \A i \in 0..(numEntries - 1) : Advance(i, numEntries, numEntries) = i)

\* C7 witness: three entries, the tick that wrapped from the last entry to
\* the first has run right after the tick that reached the last entry (the
\* fades of both are pending).
C7_Witness ==
  /\ lastOp = "tickAdvance"
  /\ numEntries = 3
  /\ fadeQueue = <<3, 1>>
  /\ selected = {1}

C9_DesktopToMobileSeedsMobile ==
  [][\A d \in Entries :
       (ResizeToMobileStep /\ selected = {d}) =>
         (/\ liveTimers' = {}
          /\ carouselIntervalId' = NoTimer
          /\ progPaused' /\ ~progRunning'
          /\ mobileSel' = DataImage(d)
          /\ modalActive' = modalActive
          /\ bodyLocked' = bodyLocked)]_vars

\* C9 witness: after the transition, taken while the carousel was running
\* on the second entry, the mobile display holds that entry's image and the
\* modal is closed.
C9_Witness ==
  /\ lastOp = "resizeD2M"
  /\ selected = {2}
  /\ mobileSel = 2
  /\ ~modalActive
  /\ ~carouselPaused
  /\ progPaused /\ ~progRunning
  /\ liveTimers = {}

\* C10 (as claimed): a selection change that triggers the fade switch marks
\* the showcase fading and leaves its image as it was; the midpoint timeout
\* sets the requested image and clears the mark in one step; and the image
\* is never swapped by a timeout after the fading mark has been cleared.
C10_SwapOnlyAtMidpointWhileFading ==
  [][/\ ((\E e \in Entries : DesktopSelectStep(e)) \/ TickAdvanceStep)
          => (fading' /\ showcaseSel' = showcaseSel)
     /\ FadeTimeout
          => (~fading' /\ showcaseSel' = Head(fadeQueue))
     /\ (FadeTimeout /\ showcaseSel' # showcaseSel)
          => fading]_vars

\* ---- claims about the theme controller ----

StoredPresent == storeReadable /\ stored # "none"

SystemPrefersDark == hasMatchMedia /\ systemDark

\* C11: getCurrentTheme returns the stored preference whenever one is
\* present and readable, whatever the system preference; with none it
\* returns dark iff the system prefers dark and light otherwise; the result
\* is always dark or light, and it is the value init() obtained.
C11_StoredThenSystemThenLight ==
  LET theme == getCurrentTheme(TCur).val
  IN /\ StoredPresent => theme = stored
     /\ ~StoredPresent => (theme = THEME_DARK <=> SystemPrefersDark)
     /\ theme \in {THEME_DARK, THEME_LIGHT}
     /\ lastThemeOp = "init" => returned = theme

\* C11 witness: init() ran with "light" stored while the system prefers
\* dark, obtained light and left the document without the dark marker.
C11_Witness ==
  /\ lastThemeOp = "init"
  /\ storeReadable /\ stored = THEME_LIGHT
  /\ hasMatchMedia /\ systemDark
  /\ returned = THEME_LIGHT
  /\ dataTheme = "none"

\* the attribute applyTheme leaves for a system preference
AttrOfSystem(dark) == IF dark THEN THEME_DARK ELSE "none"

AppliedTheme(attr) == IF attr = THEME_DARK THEN THEME_DARK ELSE THEME_LIGHT

\* C13: toggleTheme flips the applied theme (dark becomes light, anything
\* else becomes dark), returns the new theme, leaves the stored preference
\* equal to it when the store is writable, and a toggle directly after a
\* toggle restores the theme applied before the first.
C13_ToggleFlipsStoresReturns ==
  [][ToggleClick =>
       /\ AppliedTheme(dataTheme') # AppliedTheme(dataTheme)
       /\ dataTheme' = (IF dataTheme = THEME_DARK THEN "none" ELSE THEME_DARK)
       /\ returned' = AppliedTheme(dataTheme')
       /\ storeWritable => stored' = AppliedTheme(dataTheme')
       /\ lastThemeOp = "toggle"
            => AppliedTheme(dataTheme') = AppliedTheme(beforeToggle)]_allVars

\* C13 witness: two toggles in a row from dark, the second returned dark
\* again, stored it, and both marker timeouts are still pending.
C13_Witness ==
  /\ lastThemeOp = "toggle"
  /\ pendingClears = 2
  /\ beforeToggle = "none"
  /\ dataTheme = THEME_DARK
  /\ returned = THEME_DARK
  /\ storeWritable /\ stored = THEME_DARK

\* C14: a store failure is never fatal.  No step reaches an error state;
\* when reading throws, init() continues with the system preference as the
\* effective theme; when writing throws, toggleTheme still flips the
\* applied theme, returns the new theme and schedules the marker clearing.
C14_StoreFailureNotFatal ==
  [][/\ ~uncaught'
     /\ (ThemeScriptInit /\ ~storeReadable)
          => /\ returned' = getSystemThemePreference
             /\ dataTheme' = AttrOfSystem(SystemPrefersDark)
             /\ ariaLabel' # "none"
             /\ tpc' = "ready"
     /\ (ToggleClick /\ ~storeWritable)
          => /\ AppliedTheme(dataTheme') # AppliedTheme(dataTheme)
             /\ returned' = AppliedTheme(dataTheme')
             /\ transitioning'
             /\ pendingClears' = pendingClears + 1
             /\ stored' = stored
             /\ ariaLabel' # ariaLabel]_allVars

\* C14 witness: the store throws on read and on write and holds "light";
\* init() applied the system preference dark, and a toggle then flipped the
\* document to light with its marker timeout pending.
C14_Witness ==
  /\ ~storeReadable /\ ~storeWritable
  /\ stored = THEME_LIGHT
  /\ hasMatchMedia /\ systemDark
  /\ lastThemeOp = "toggle"
  /\ beforeToggle = THEME_DARK
  /\ dataTheme = "none"
  /\ returned = THEME_LIGHT
  /\ transitioning /\ pendingClears = 1
  /\ ~uncaught

\* the document markers of a theme state
DocumentOf(s) == <<s.dataTheme, s.transitioning, s.ariaLabel>>

\* C15: applyTheme is idempotent.  From any prior value of the data-theme
\* attribute and for each theme, applying the theme a second time leaves
\* the document exactly as the first application left it: data-theme
\* present with value dark, or absent; and the document of the session
\* carries the marker of the theme that was applied last.
C15_ApplyThemeIdempotent ==
  /\ \A theme \in {THEME_DARK, THEME_LIGHT} :
       \A prior \in {"none", THEME_DARK, THEME_LIGHT} :
         LET once == applyTheme([TCur EXCEPT !.dataTheme = prior], theme)
             twice == applyTheme(once, theme)
         IN /\ DocumentOf(twice) = DocumentOf(once)
            /\ once.dataTheme = AttrOfSystem(theme = THEME_DARK)
  /\ appliedArgs # <<>>
       => dataTheme = AttrOfSystem(appliedArgs[Len(appliedArgs)] = THEME_DARK)

\* C15 witness: the session applied dark twice in a row (a toggle to dark
\* that could not be stored, then a system change to dark) and the
\* document carries the dark marker.
C15_Witness ==
  /\ lastThemeOp = "system"
  /\ appliedArgs = <<THEME_DARK, THEME_DARK>>
  /\ dataTheme = THEME_DARK

\* C16: every toggleTheme sets the transitioning marker and schedules one
\* timeout; a timeout is never cancelled, and when it fires it removes the
\* marker whatever else is pending; once no timeout is pending the marker
\* is absent.
C16_MarkerClearedByEveryTimeout ==
  [][/\ ToggleClick
          => (transitioning' /\ pendingClears' = pendingClears + 1)
     /\ ClearMarkerTimeout
          => (~transitioning' /\ pendingClears' = pendingClears - 1)
     /\ pendingClears' < pendingClears => lastThemeOp' = "clear"
     /\ pendingClears' = 0 => ~transitioning']_allVars

\* C16 witness: two toggles were pending, the first timeout fired and
\* removed the marker while the second toggle's timeout is still pending.
C16_Witness ==
  /\ lastThemeOp = "clear"
  /\ pendingClears = 1
  /\ ~transitioning
  /\ chosen

\* ---- claims about the modal and about missing elements ----

\* C17: in every reachable state body scroll is locked if and only if the
\* modal is open, and a selectEntry at a mobile width opens the modal on
\* the entry's image and stores that image as the mobile display's
\* selected image.
C17_ScrollLockedIffModalOpen ==
  /\ [](bodyLocked <=> modalActive)
  /\ [][\A e \in Entries :
          (lastOp' = "select" /\ MobileSelectStep(e))
            => /\ modalActive' /\ bodyLocked'
               /\ mobileSel' = DataImage(e)]_allVars

\* C17 witness: selectEntry opened the modal on the second entry while the
\* first entry carries the desktop mark; scroll is locked and the mobile
\* display holds the second entry's image.
C17_Witness ==
  /\ lastOp = "select"
  /\ modalActive /\ bodyLocked
  /\ mobileSel = DataImage(2)
  /\ selected = {1}

\* C18 (as claimed): in every state with tracked mode Desktop the modal is
\* closed, no selectEntry performed with tracked mode Desktop opens it, and
\* every Mobile -> Desktop transition leaves it closed.
C18_ModalClosedInTrackedDesktop ==
  /\ []((pc = "ready" /\ ~wasMobile) => ~modalActive)
  /\ [][/\ \A e \in Entries :
             (SelectEntry(e) /\ ~wasMobile) => ~modalActive'
        /\ ResizeToDesktopStep => ~modalActive']_allVars

\* C18 (amended): the modal is opened only by a selectEntry performed at a
\* mobile viewport width; a selectEntry at a desktop width leaves the modal
\* as it was; and every Mobile -> Desktop transition of the resize handler
\* leaves it closed with scroll restored.
C18_ModalOpenedOnlyAtMobileWidth ==
  [][/\ (modalActive' /\ ~modalActive)
          => (lastOp' = "select" /\ IsMobileAt(innerWidth))
     /\ \A e \in Entries :
          (lastOp' = "select" /\ DesktopSelectStep(e))
            => modalActive' = modalActive
     /\ ResizeToDesktopStep => (~modalActive' /\ ~bodyLocked')]_allVars

\* C18 witness: the resize handler took the Mobile -> Desktop branch with
\* the modal open on the third entry's image and closed it.
C18_Witness ==
  /\ lastOp = "resizeM2DModal"
  /\ ~wasMobile
  /\ ~modalActive /\ ~bodyLocked
  /\ mobileSel = DataImage(3)
  /\ numEntries = 3

\* C19 (as claimed): a Mobile -> Desktop carry-over whose mobile image
\* identifier matches no entry leaves the desktop active entry and the
\* showcase's selected image exactly as they were before the transition.
C19_UnresolvedCarryOverIsNoOp ==
  [][(/\ ResizeToDesktopStep
      /\ modalActive
      /\ mobileSel # NoImage
      /\ EntryOfImage(mobileSel) = 0)
       => (selected' = selected /\ showcaseSel' = showcaseSel)]_allVars

\* C20: when the document has no desktop showcase, no carousel timer is
\* live and the modal is closed in every state, and no step (entry click or
\* key, resize in either direction) changes the active entry, the showcase
\* image or the modal, starts a timer, or schedules a fade or a frame.
C20_NoShowcaseNoEngine ==
  /\ [](~hasShowcase
          => (liveTimers = {} /\ carouselIntervalId = NoTimer /\ ~modalActive))
  /\ [][~hasShowcase
          => /\ selected' = selected
             /\ showcaseSel' = showcaseSel
             /\ ~modalActive' /\ ~bodyLocked'
             /\ liveTimers' = {}
             /\ fadeQueue' = <<>> /\ ~fading'
             /\ rafPending' = 0
             /\ \A e \in Entries : SelectEntry(e) => UNCHANGED vars]_allVars

\* C20 witness: a document with two or more entries and no showcase went
\* through a Mobile -> Desktop resize; the handler ran, the carousel is not
\* paused, and still no timer is live.
C20_Witness ==
  /\ ~hasShowcase
  /\ numEntries >= 2
  /\ lastOp = "resizeM2D"
  /\ ~wasMobile /\ ~IsMobileAt(innerWidth)
  /\ ~carouselPaused
  /\ liveTimers = {}

\* ---- claims about the engine, continued ----

\* C21: in every reachable state at most one entry carries the 'selected'
\* mark (the markup declares at most one default entry), and every
\* operation that activates an entry leaves that entry as the only marked
\* one: a user selectEntry on desktop, an advancing carousel tick, and the
\* Mobile -> Desktop carry-over from the open modal.
C21_AtMostOneActiveEntry ==
  /\ [](Cardinality(selected) <= 1)
  /\ [][/\ \A e \in Entries :
             (lastOp' = "select" /\ DesktopSelectStep(e)) => selected' = {e}
        /\ (lastOp' = "tickAdvance" /\ TickAdvanceStep)
             => selected' = {NextIndex(CurrentIndex(Cur), numEntries) + 1}
        /\ (modalActive /\ mobileSel # NoImage /\ wasMobile
              /\ ResizeToDesktopStep)
             => selected' = {EntryOfImage(mobileSel)} \ {0}]_allVars

\* C21 witness: an advancing tick moved the mark from the first entry to
\* the second; the second is the only marked entry while the showcase is
\* still fading from the first entry's image.
C21_Witness ==
  /\ lastOp = "tickAdvance"
  /\ selected = {2}
  /\ showcaseSel = DataImage(1)
  /\ fading

\* widths around the breakpoint
ProbeWidths == (Breakpoint - 2)..(Breakpoint + 2)

\* C22: the classifier maps width w to Mobile exactly when w <= 768 and to
\* Desktop exactly when w >= 769, and every place that decides the mode
\* follows it: set-up (tracked mode, carousel start), selectEntry (modal or
\* highlight), the tick guard, and the resize handler (tracked mode).
C22_BreakpointInclusive ==
  /\ [](/\ IsMobileAt(768) /\ ~IsMobileAt(769)
        /\ \A w \in ProbeWidths :
             /\ IsMobileAt(w) <=> w <= 768
             /\ ~IsMobileAt(w) <=> w >= 769)
  /\ [][/\ (pc = "start" /\ ScriptInit)
             => /\ wasMobile' = (innerWidth <= 768)
                /\ liveTimers' # {} => innerWidth >= 769
                /\ (innerWidth >= 769 /\ hasShowcase /\ numEntries > 0)
                     => liveTimers' # {}
        /\ \A e \in Entries :
             (lastOp' = "select" /\ hasShowcase /\ SelectEntry(e))
               => IF innerWidth <= 768
                  THEN modalActive' /\ selected' = selected
                  ELSE selected' = {e} /\ modalActive' = modalActive
        /\ (lastOp' = "tickCancel" /\ \E t \in liveTimers : CarouselTick(t))
             => (innerWidth <= 768 \/ carouselPaused)
        /\ (lastOp' = "tickAdvance" /\ \E t \in liveTimers : CarouselTick(t))
             => innerWidth >= 769
        /\ (lastOp' \in {"resizeM2D", "resizeM2DModal", "resizeD2M",
                         "resizeSame"} /\ HandleResize)
             => wasMobile' = (innerWidth <= 768)]_allVars

\* C22 witness: the script was set up at width 768 exactly, in a document
\* with a showcase and several entries: the tracked mode is Mobile and no
\* carousel timer was started.
C22_Witness ==
  /\ lastOp = "init"
  /\ innerWidth = 768
  /\ wasMobile
  /\ hasShowcase /\ numEntries >= 2
  /\ liveTimers = {}

\* a callback of a live interval timer runs
TickStep ==
  /\ lastOp' \in {"tickCancel", "tickAdvance"}
  /\ \E t \in liveTimers : CarouselTick(t)

\* C23: a carousel tick that fires while the viewport is Mobile or while
\* the pause flag is set changes neither the active entry, nor the showcase
\* image (now or by a scheduled swap), nor the progress indicator, and
\* after it no carousel timer is live.
C23_TickOffDesktopOnlyCancels ==
  [][((IsMobileAt(innerWidth) \/ carouselPaused) /\ TickStep)
       => /\ selected' = selected
          /\ showcaseSel' = showcaseSel
          /\ fading' = fading /\ fadeQueue' = fadeQueue
          /\ progRunning' = progRunning /\ progPaused' = progPaused
          /\ barWidth' = barWidth /\ rafPending' = rafPending
          /\ carouselPaused' = carouselPaused
          /\ liveTimers' = {}
          /\ carouselIntervalId' = NoTimer]_allVars

\* C23 witness: the viewport narrowed while the carousel was running on
\* the second entry and the timer ticked before the resize handler ran:
\* the tick cancelled the timer and the second entry is still active.
C23_Witness ==
  /\ lastOp = "tickCancel"
  /\ IsMobileAt(innerWidth)
  /\ ~wasMobile
  /\ ~carouselPaused
  /\ selected = {2}
  /\ liveTimers = {}

\* C24: selectEntry performed at a mobile width on an entry with image X
\* opens the modal with X as the mobile display's selected image and leaves
\* the desktop side unchanged: the set of active entries, the showcase's
\* selected image and its pending swaps, the pause flag and the carousel
\* timer.
C24_MobileSelectLeavesDesktopSide ==
  [][\A e \in Entries :
       (lastOp' = "select" /\ MobileSelectStep(e))
         => /\ modalActive'
            /\ mobileSel' = DataImage(e)
            /\ selected' = selected
            /\ showcaseSel' = showcaseSel
            /\ fading' = fading /\ fadeQueue' = fadeQueue
            /\ carouselPaused' = carouselPaused
            /\ liveTimers' = liveTimers
            /\ carouselIntervalId' = carouselIntervalId]_allVars

\* C24 witness: after a user pause on the first entry and a resize to
\* mobile, the third entry was activated: the modal shows its image, the
\* first entry is still the active one and the carousel is still paused.
C24_Witness ==
  /\ lastOp = "select"
  /\ wasMobile /\ IsMobileAt(innerWidth)
  /\ modalActive
  /\ mobileSel = DataImage(3)
  /\ selected = {1}
  /\ showcaseSel = DataImage(1)
  /\ carouselPaused

\* C25: an advancing tick leaves the pause flag false and the same carousel
\* timer live, its handle still stored, so that the timer ticks again.
C25_AdvanceKeepsTimerAndFlag ==
  [][(lastOp' = "tickAdvance" /\ TickAdvanceStep)
       => /\ ~carouselPaused /\ ~carouselPaused'
          /\ liveTimers' = liveTimers
          /\ carouselIntervalId' = carouselIntervalId
          /\ carouselIntervalId' \in liveTimers'
          /\ liveTimers' # {}]_allVars

\* C25 witness: an advancing tick moved the mark to the third entry while
\* the swap to the second entry's image was still pending; the carousel is
\* not paused and its timer is live.
C25_Witness ==
  /\ lastOp = "tickAdvance"
  /\ selected = {3}
  /\ fadeQueue = <<DataImage(2), DataImage(3)>>
  /\ ~carouselPaused
  /\ liveTimers = {carouselIntervalId}

\* C26: set-up at a desktop width, with a showcase and a default entry in
\* the markup, sets the showcase's selected image to that entry's image at
\* once, with no fading mark and no pending swap, and that entry stays the
\* active one; set-up at a mobile width starts no carousel timer and leaves
\* the modal closed.
C26_InitShowsDefaultWithoutFade ==
  [][(pc = "start" /\ ScriptInit)
       => /\ (~IsMobileAt(innerWidth) /\ hasShowcase /\ selected # {})
               => /\ showcaseSel' = DataImage(SelectedEntry(Cur))
                  /\ ~fading' /\ fadeQueue' = <<>>
                  /\ selected' = selected
          /\ IsMobileAt(innerWidth)
               => /\ liveTimers' = {} /\ carouselIntervalId' = NoTimer
                  /\ ~modalActive' /\ ~bodyLocked']_allVars

\* C26 witness: set-up ran at a desktop width over markup whose default is
\* the second entry: the showcase shows its image, nothing is fading or
\* pending, and the carousel timer is live.
C26_Witness ==
  /\ lastOp = "init"
  /\ ~IsMobileAt(innerWidth)
  /\ hasShowcase
  /\ selected = {2}
  /\ showcaseSel = DataImage(2)
  /\ ~fading /\ fadeQueue = <<>>
  /\ liveTimers # {}

\* C27: with the modal open, a click on the image wrapper or on an element
\* inside it leaves the modal open, and a click on the underlay or on the
\* content box outside the wrapper closes it; the decision follows the
\* subtree of the wrapper, not equality with the wrapper element.
C27_ClickInsideImageKeepsModal ==
  /\ lastOp \in {"clickWrapper", "clickImage"}
       => (modalActive /\ bodyLocked)
  /\ lastOp \in {"clickContent", "clickCaption", "close"}
       => (~modalActive /\ ~bodyLocked)

\* C27 witness: the modal is open on the second entry's image after a click
\* on the image inside the image wrapper.
C27_Witness ==
  /\ lastOp = "clickImage"
  /\ modalActive /\ bodyLocked
  /\ mobileSel = DataImage(2)

\* C28 (as claimed): in Desktop mode, whenever no fade-swap timeout is
\* pending, the showcase's selected image is the image of the active entry
\* (checked where the showcase has a selected image and an entry is
\* active).
C28_ShowcaseFollowsActiveEntry ==
  (/\ pc = "ready"
   /\ hasShowcase
   /\ ~wasMobile /\ ~IsMobileAt(innerWidth)
   /\ fadeQueue = <<>>
   /\ selected # {}
   /\ showcaseSel # NoImage)
    => selected = {e \in Entries : DataImage(e) = showcaseSel}

\* C29 (as claimed): in every reachable state with no live carousel timer
\* the progress indicator is not in the running state.
C29_RunningOnlyWithLiveTimer ==
  (pc = "ready" /\ liveTimers = {}) => ~progRunning

\* C30: a resize event handled while the tracked mode equals the mode of
\* the current width (Desktop -> Desktop or Mobile -> Mobile) leaves the
\* engine state unchanged: active entry, showcase image and pending swaps,
\* mobile display image, modal, pause flag, the carousel timer and its
\* handle, the progress indicator and the tracked mode.
C30_SameModeResizeChangesNothing ==
  [][(/\ lastOp' = "resizeSame"
      /\ wasMobile = IsMobileAt(innerWidth)
      /\ HandleResize)
       => /\ UNCHANGED <<selected, showcaseSel, fading, fadeQueue, mobileSel>>
          /\ UNCHANGED <<modalActive, bodyLocked, carouselPaused>>
          /\ UNCHANGED <<carouselIntervalId, liveTimers>>
          /\ UNCHANGED <<progRunning, progPaused, barWidth, rafPending>>
          /\ UNCHANGED <<wasMobile, innerWidth>>]_allVars

\* C30 witness: a resize event was handled at a desktop width in Desktop
\* mode while the carousel was paused by a user selection of the second
\* entry: the carousel is still paused and no timer is live.
C30_Witness ==
  /\ lastOp = "resizeSame"
  /\ ~wasMobile /\ ~IsMobileAt(innerWidth)
  /\ carouselPaused
  /\ selected = {2}
  /\ liveTimers = {}

\* ---- the carousel under the scheduling of the browser ----

\* an interval timer that stays live keeps firing every CAROUSEL_INTERVAL,
\* and a pending timeout or animation frame is delivered
CarouselFairness ==
  /\ WF_allVars(\E t \in liveTimers : CarouselTick(t))
  /\ WF_allVars(FadeTimeout)
  /\ WF_allVars(AnimationFrame)

FairSpec == Init /\ [][Next]_allVars /\ CarouselFairness

\* Desktop viewport, several entries, the carousel started
CarouselStarted ==
  /\ pc = "ready"
  /\ ~IsMobileAt(innerWidth)
  /\ numEntries > 1
  /\ liveTimers # {}

\* a step that is neither a user selection nor a change of mode
QuietStep ==
  /\ \A e \in Entries : ~SelectEntry(e)
  /\ innerWidth' = innerWidth
  /\ wasMobile' = wasMobile

\* C31: in Desktop mode with more than one entry and the carousel started,
\* if from some point on there is no user selection and no mode change, then
\* with timers that keep firing every entry is the active entry again and
\* again: the timer does not cancel itself and the cycle does not get stuck,
\* also when it starts with no active entry.
C31_EveryEntryActiveInfinitelyOften ==
  /\ [][(CarouselStarted /\ QuietStep)
         => (CarouselStarted' /\ ~carouselPaused')]_allVars
  /\ \A e \in 1..MaxEntries :
       (<>[](CarouselStarted /\ e <= numEntries) /\ <>[][QuietStep]_allVars)
         => []<>(selected = {e})

\* C31 witness: with as many entries as the document may hold, a tick has
\* wrapped from the last entry to the first: entry 1 is active, the showcase
\* still shows the image of the last entry and the swap to image 1 is pending.
C31_Witness ==
  /\ CarouselStarted
  /\ numEntries = MaxEntries
  /\ lastOp = "tickAdvance"
  /\ selected = {1}
  /\ showcaseSel = DataImage(numEntries)
  /\ fadeQueue = <<DataImage(1)>>

====
